---- MODULE Spec2Model ----
(***************************************************************************)
(* A model of the long-running query poller of the r7 command-line client  *)
(* (src/api/client.py, Rapid7Client.poll_query), of the HTTP transport     *)
(* below it (Rapid7Client.make_request) and of the name resolution helpers *)
(* (get_log_id_by_name, get_logset_id_by_name) with their lookup cache     *)
(* (src/utils/cache.py).                                                   *)
(*                                                                         *)
(* poll_query is modelled as its activation record `frame`; a step of the  *)
(* model runs the code from one blocking point (a clock reading, a call of *)
(* make_request) to the next.  URLs are naturals: 0 is the caller's url,   *)
(* and the link in the response to the n-th call of make_request is URL n. *)
(***************************************************************************)
EXTENDS Integers, Sequences, FiniteSets, TLC

VARIABLES
    frame,      \* poll_query's activation record (locals, position, outcome)
    obs,        \* the observer of the call (see NewObs)
    rs,         \* the name-resolution world (client, cache, listing, calls)
    tr,         \* one call of make_request, attempt by attempt
    cmd,        \* one run of a query command
    cm,         \* a CacheManager and the history of its operations
    job         \* one call of ic_wait_for_job

vars == <<frame, obs, rs, tr, cmd, cm, job>>

\* What the steps of each part leave alone.
OutsidePoller == <<rs, tr, cmd, cm, job>>
OutsideResolver == <<frame, obs, tr, cmd, cm, job>>
OutsideTransport == <<frame, obs, rs, cmd, cm, job>>
OutsideJob == <<frame, obs, rs, tr, cmd, cm>>

(***************************************************************************)
(* Bounds of the model.                                                    *)
(***************************************************************************)
\* The server offers a next link on at most MaxChain pages of one result.
MaxChain == 2
\* The clock readings tried go up to ClockCap seconds after start_time,
\* beyond every query_timeout tried.
ClockCap == 5

(***************************************************************************)
(* Python and JSON values.                                                 *)
(***************************************************************************)
None == "None"         \* Python None, JSON null
Absent == "absent"     \* a key that is not in the dict

RECURSIVE Pow2(_)
Pow2(n) == IF n <= 0 THEN 1 ELSE 2 * Pow2(n - 1)

\* Python truthiness of accumulated_data['statistics'] / of a cached id: the
\* values are None or a non-empty JSON object / a non-empty string.
Truthy(v) == v # None


\* An optional integer: Nothing is None, Some(k) is k.
Nothing == <<>>
Some(k) == <<k>>

(***************************************************************************)
(* The HTTP transport, Rapid7Client.make_request.                          *)
(***************************************************************************)
\* make_request's default retries argument.
Retries == 5

\* An exception: its type, and the status code and the response text it
\* carries in its message or its attributes (Nothing / None when it has none).
Exc(type, code, body) == [type |-> type, code |-> code, body |-> body]

\* What one HTTP attempt can end in: a response, or a requests exception.
\* A response's text is a JSON object ("object", parsed in `json`), not JSON
\* at all ("invalid") or JSON of another type, a list or a string ("other").
HttpResponse(status, json, text, parses) ==
    [kind |-> "response", status_code |-> status, json |-> json, text |-> text,
     parses |-> parses]
HttpTimeout == [kind |-> "Timeout"]
HttpRequestException == [kind |-> "RequestException"]

\* A faulty variant: only a 401 is an authentication failure.
AuthFailure_Only401(h) == h.status_code = 401

\* response.status_code == 401 / == 403 (lines 62-65).
AuthFailure(h) == h.status_code = 401 \/ h.status_code = 403

\* A faulty variant: the last attempt is retried as well.
CanRetry_OneMore(att, retries) == att < retries

\* attempt < retries - 1 (lines 67, 94, 99).
CanRetry(att, retries) == att < retries - 1

\* One pass of make_request's for-loop body with the attempt's outcome h:
\* return the response, raise, or go round again after sleeping `sleep`.
make_request(att, retries, h) ==
    IF h.kind = "Timeout"
    THEN IF CanRetry(att, retries)
         THEN [act |-> "retry", sleep |-> 0]
         ELSE [act |-> "raise", exc |-> Exc("APIError", Nothing, None)]
    ELSE IF h.kind = "RequestException"
    THEN IF CanRetry(att, retries)
         THEN [act |-> "retry", sleep |-> Pow2(att)]
         ELSE [act |-> "raise", exc |-> Exc("APIError", Nothing, None)]
    ELSE IF AuthFailure(h)
    THEN [act |-> "raise", exc |-> Exc("AuthenticationError", Nothing, None)]
    ELSE IF h.status_code = 429
    THEN IF CanRetry(att, retries)
         THEN [act |-> "retry", sleep |-> Pow2(att)]
         ELSE [act |-> "raise", exc |-> Exc("RateLimitError", Nothing, None)]
    ELSE IF h.status_code >= 400
    THEN IF h.parses = "other"
         \* error_data.get(...) on a list or a string: only ValueError and
         \* KeyError are caught around it.
         THEN [act |-> "raise", exc |-> Exc("AttributeError", Nothing, None)]
         ELSE [act |-> "raise",
               exc |-> Exc("APIError", Some(h.status_code), h.text)]
    ELSE [act |-> "return", response |-> h]

\* A whole call of make_request against a server whose successive attempts
\* end as the sequence hs says: the for-loop of lines 42-105, then line 106.
\* The result tells what the call did: returned or raised, after how many
\* HTTP requests and which sleeps.
RECURSIVE make_request_loop(_, _, _, _)
make_request_loop(att, retries, hs, sleeps) ==
    IF att >= retries
    THEN [act |-> "raise", exc |-> Exc("APIError", Nothing, None),
          sent |-> att, sleeps |-> sleeps]
    ELSE IF att + 1 > Len(hs)
    THEN [act |-> "pending", sent |-> att, sleeps |-> sleeps]
    ELSE LET r == make_request(att, retries, hs[att + 1]) IN
         IF r.act = "retry"
         THEN make_request_loop(att + 1, retries, hs,
                                IF r.sleep > 0 THEN Append(sleeps, r.sleep)
                                ELSE sleeps)
         ELSE r @@ [sent |-> att + 1, sleeps |-> sleeps]

make_request_call(retries, hs) == make_request_loop(0, retries, hs, <<>>)

(***************************************************************************)
(* poll_query: the pieces both copies of the state machine share word for  *)
(* word (the progress=True copy at lines 122-174, the quiet one at 177-216)*)
(***************************************************************************)
\* 'links' in data and data['links']
HasLinks(data) == "links" \in DOMAIN data /\ data.links # <<>>

\* A faulty variant: the caller's url is taken again, whatever the link.
Href_CallersUrl(data) == 0

\* data['links'][0]['href']
Href(data) == Head(data.links)

\* A faulty variant: the poll URL stays what it was.
NextPollUrl_Fixed(poll_url, data) == poll_url

\* if 'links' in data and data['links']: poll_url = data['links'][0]['href']
NextPollUrl(poll_url, data) == IF HasLinks(data) THEN Href(data) ELSE poll_url

\* A faulty variant: the still-processing test looks for the wrong status.
StillProcessing_WrongStatus(response) ==
    LET data == response.json
        query_progress ==
            IF "progress" \in DOMAIN data THEN data.progress ELSE 100
    IN  query_progress < 100 /\ response.status_code = 200

\* query_progress = data.get('progress', 100);
\* query_progress < 100 and response.status_code == 202
StillProcessing(response) ==
    LET data == response.json
        query_progress ==
            IF "progress" \in DOMAIN data THEN data.progress ELSE 100
    IN  query_progress < 100 /\ response.status_code = 202

\* A faulty variant: the page's events are put in front of the accumulated ones.
MergeEvents_Prepend(events, data) ==
    IF "events" \in DOMAIN data THEN data.events \o events ELSE events

\* if 'events' in data: accumulated_data['events'].extend(data['events'])
MergeEvents(events, data) ==
    IF "events" \in DOMAIN data THEN events \o data.events ELSE events

\* A faulty variant: statistics once set are kept, a later page's are dropped.
MergeStatistics_KeepFirst(statistics, data) ==
    IF "statistics" \in DOMAIN data /\ statistics = None
    THEN data.statistics ELSE statistics

\* if 'statistics' in data: accumulated_data['statistics'] = data['statistics']
MergeStatistics(statistics, data) ==
    IF "statistics" \in DOMAIN data THEN data.statistics ELSE statistics

Merge(accumulated_data, data) ==
    [events |-> MergeEvents(accumulated_data.events, data),
     statistics |-> MergeStatistics(accumulated_data.statistics, data)]

\* A faulty variant: the budget test is off by one (<= for <).
BudgetAllows_OffByOne(max_result_pages, result_pages) ==
    IF max_result_pages = Nothing THEN TRUE
    ELSE result_pages <= Head(max_result_pages)

\* A faulty variant: no budget is a budget of no page.
BudgetAllows_UnsetIsZero(max_result_pages, result_pages) ==
    max_result_pages # Nothing /\ result_pages < Head(max_result_pages)

\* A faulty variant: a budget of zero or less is no budget.
BudgetAllows_NonPositiveUnset(max_result_pages, result_pages) ==
    IF max_result_pages = Nothing \/ Head(max_result_pages) <= 0 THEN TRUE
    ELSE result_pages < Head(max_result_pages)

\* max_result_pages is None or result_pages < max_result_pages
BudgetAllows(max_result_pages, result_pages) ==
    IF max_result_pages = Nothing THEN TRUE
    ELSE result_pages < Head(max_result_pages)

\* A faulty variant: only 4xx and 5xx count as failures.
BadStatus_Only4xx(response) == response.status_code >= 400

\* response.status_code not in (200, 202)
BadStatus(response) ==
    response.status_code # 200 /\ response.status_code # 202

\* A faulty variant: the exception is caught and an APIError raised for it.
Raise_Wrapped(f, e) ==
    [f EXCEPT !.pc = "done",
              !.outcome = [kind |-> "raise",
                           exc |-> [e EXCEPT !.type = "APIError"]]]

\* An exception leaves poll_query, which has no handler.
Raise(f, e) ==
    [f EXCEPT !.pc = "done", !.outcome = [kind |-> "raise", exc |-> e]]

\* A faulty variant: the accumulator is returned whatever it holds.
ReturnStmt_Accumulated(f) ==
    [f EXCEPT !.pc = "done",
              !.outcome = [kind |-> "return", value |-> f.accumulated_data]]

\* return accumulated_data if accumulated_data['events']
\*        or accumulated_data['statistics'] else data
\* `data` is a local no assignment has reached when the loop broke before
\* the first response: reading it raises UnboundLocalError.
ReturnStmt(f) ==
    IF f.accumulated_data.events # <<>>
       \/ Truthy(f.accumulated_data.statistics)
    THEN [f EXCEPT !.pc = "done",
                   !.outcome = [kind |-> "return",
                                value |-> f.accumulated_data]]
    ELSE IF "unbound" \in DOMAIN f.data
    THEN Raise(f, Exc("UnboundLocalError", Nothing, None))
    ELSE [f EXCEPT !.pc = "done",
                   !.outcome = [kind |-> "return", value |-> f.data]]

\* A faulty variant: each sleep is twice as long as the one before could be.
Sleep_Backoff(sleeps, seconds) == Append(sleeps, seconds * Pow2(Len(sleeps)))

\* time.sleep(seconds): `sleeps` is the list of the sleeps poll_query made.
Sleep(sleeps, seconds) == Append(sleeps, seconds)

\* self.make_request("GET", u): the call is entered, no attempt made yet.
CallMakeRequest(f, u, where) ==
    [f EXCEPT !.pc = where, !.requests = Append(@, u)]


\* progress.update(task, description=...): the progress sink shows one
\* description at a time, the last one set.
Description(msg, n, events) == [msg |-> msg, n |-> n, events |-> events]

(***************************************************************************)
(* poll_query with show_progress=True, lines 112-174.                      *)
(***************************************************************************)
\* Lines 123-128: the head of the Phase-1 loop, with the clock reading t.
V_LoopHead(f, t) ==
    IF t - f.start_time > f.query_timeout
    THEN ReturnStmt([f EXCEPT !.description =
                        Description("Query timeout after", f.query_timeout, 0)])
    ELSE CallMakeRequest(f, f.poll_url, "p1_req")

\* Lines 153-160 and 170-174: the test of the Phase-2 loop on the current
\* page, up to the next request or to the end of the call.
V_Phase2(f) ==
    IF HasLinks(f.data) /\ BudgetAllows(f.max_result_pages, f.result_pages)
    THEN LET g == [f EXCEPT
                     !.result_pages = @ + 1,
                     !.description =
                        Description("Fetching results page", f.result_pages + 1,
                                    Len(f.accumulated_data.events)),
                     !.url = Href(f.data),
                     !.sleeps = Sleep(@, 1)]
         IN  CallMakeRequest(g, g.url, "p2_req")
    ELSE ReturnStmt([f EXCEPT !.description =
            IF f.max_result_pages # Nothing
               /\ f.result_pages >= Head(f.max_result_pages)
            THEN Description("Retrieved result pages", f.result_pages,
                             Len(f.accumulated_data.events))
            ELSE Description("Query completed!", 0,
                             Len(f.accumulated_data.events))])

\* Lines 129-152: a response to a Phase-1 poll.
V_OnPoll(f, response) ==
    IF BadStatus(response)
    THEN Raise(f, Exc("APIError", Some(response.status_code), response.text))
    ELSE LET data == response.json
             g == [f EXCEPT !.data = data,
                            !.poll_url = NextPollUrl(@, data)]
         IN  IF StillProcessing(response)
             THEN [g EXCEPT !.description =
                              Description("Query processing...",
                                          data.progress, 0),
                            !.sleeps = Sleep(@, 2),
                            !.pc = "p1_head"]
             ELSE V_Phase2([g EXCEPT
                              !.accumulated_data = Merge(@, data),
                              !.result_pages = 0])

\* Lines 161-168: a response to a Phase-2 page fetch.
V_OnPage(f, response) ==
    IF BadStatus(response)
    THEN Raise(f, Exc("APIError", Some(response.status_code), response.text))
    ELSE LET data == response.json
         IN  V_Phase2([f EXCEPT !.data = data,
                                !.accumulated_data = Merge(@, data)])

(***************************************************************************)
(* poll_query with show_progress=False, lines 175-216.                     *)
(***************************************************************************)
\* A faulty variant: the quiet copy's timeout test is >= where the other copy has >.
Q_LoopHead_Inclusive(f, t) ==
    IF t - f.start_time >= f.query_timeout
    THEN ReturnStmt(f)
    ELSE CallMakeRequest(f, f.poll_url, "p1_req")

\* Lines 178-182.
Q_LoopHead(f, t) ==
    IF t - f.start_time > f.query_timeout
    THEN ReturnStmt(f)
    ELSE CallMakeRequest(f, f.poll_url, "p1_req")

\* Lines 202-207 and 216.
Q_Phase2(f) ==
    IF HasLinks(f.data) /\ BudgetAllows(f.max_result_pages, f.result_pages)
    THEN LET g == [f EXCEPT !.result_pages = @ + 1,
                            !.url = Href(f.data),
                            !.sleeps = Sleep(@, 1)]
         IN  CallMakeRequest(g, g.url, "p2_req")
    ELSE ReturnStmt(f)

\* Lines 183-201.
Q_OnPoll(f, response) ==
    IF BadStatus(response)
    THEN Raise(f, Exc("APIError", Some(response.status_code), response.text))
    ELSE LET data == response.json
             g == [f EXCEPT !.data = data,
                            !.poll_url = NextPollUrl(@, data)]
         IN  IF StillProcessing(response)
             THEN [g EXCEPT !.sleeps = Sleep(@, 2), !.pc = "p1_head"]
             ELSE Q_Phase2([g EXCEPT
                              !.accumulated_data = Merge(@, data),
                              !.result_pages = 0])

\* Lines 208-215.
Q_OnPage(f, response) ==
    IF BadStatus(response)
    THEN Raise(f, Exc("APIError", Some(response.status_code), response.text))
    ELSE LET data == response.json
         IN  Q_Phase2([f EXCEPT !.data = data,
                                !.accumulated_data = Merge(@, data)])

\* A faulty variant: the timeout leaves the Phase-1 loop only, and the
\* pagination goes on from the last response.
LoopHead_FallThrough(f, t) ==
    IF t - f.start_time > f.query_timeout /\ "unbound" \notin DOMAIN f.data
    THEN IF f.show_progress THEN V_Phase2(f) ELSE Q_Phase2(f)
    ELSE IF f.show_progress THEN V_LoopHead(f, t) ELSE Q_LoopHead(f, t)

\* if show_progress: ... else: ...   (line 112)
LoopHead(f, t) == IF f.show_progress THEN V_LoopHead(f, t) ELSE Q_LoopHead(f, t)
OnPoll(f, r) == IF f.show_progress THEN V_OnPoll(f, r) ELSE Q_OnPoll(f, r)

\* A faulty variant: a page that says the query is still processing sends
\* the call back to the Phase-1 wait.
OnPage_Rewait(f, r) ==
    IF ~BadStatus(r) /\ StillProcessing(r)
    THEN [f EXCEPT !.data = r.json, !.sleeps = Sleep(@, 2), !.pc = "p1_head"]
    ELSE IF f.show_progress THEN V_OnPage(f, r) ELSE Q_OnPage(f, r)

OnPage(f, r) == IF f.show_progress THEN V_OnPage(f, r) ELSE Q_OnPage(f, r)


(***************************************************************************)
(* The server and the callers of poll_query.                               *)
(***************************************************************************)
\* A JSON object with key k when opt is <<v>>, without it when opt is <<>>.
Field(k, opt) == IF opt = <<>> THEN <<>> ELSE [x \in {k} |-> opt[1]]

\* The bodies the server may give the n-th call of make_request: `progress`
\* missing, 40 or 100; `events` missing or one event, n; `statistics`
\* missing, null or the object "s<n>"; `links` missing, empty or one link,
\* whose href is URL n.  A next link is offered only when mayLink.
Bodies(n, mayLink) ==
    { Field("progress", p) @@ Field("events", e)
        @@ Field("statistics", st) @@ Field("links", l) :
        p \in {<<>>, <<40>>, <<100>>},
        e \in {<<>>, << <<n>> >>},
        st \in {<<>>, <<None>>, <<"s" \o ToString(n)>>},
        l \in {<<>>, << <<>> >>} \cup (IF mayLink THEN {<< <<n>> >>} ELSE {}) }

ErrorText(status) == "body" \o ToString(status)

\* What the last HTTP attempt of the n-th call may end in.
HttpOutcomes(n, mayLink) ==
    { HttpResponse(s, b, "json", "object") :
        s \in {200, 202}, b \in Bodies(n, mayLink) }
    \cup { HttpResponse(s, <<>>, ErrorText(s), "object") :
             s \in {204, 401, 403, 500} }
    \* only the handling of a 4xx or 5xx parses the text
    \cup { HttpResponse(500, <<>>, ErrorText(500), k) :
             k \in {"invalid", "other"} }

\* The attempts a retry can follow.
Retryable ==
    { HttpResponse(429, <<>>, ErrorText(429), "object"),
      HttpTimeout, HttpRequestException }

Repeat(h, k) == [i \in 1..k |-> h]

\* How the attempts of the n-th call of make_request may go: the first one
\* gets its final answer; or every attempt fails the same retryable way;
\* or the first attempts fail, each way once, and the next gets the answer.
Scripts(n, mayLink) ==
    { <<h>> : h \in HttpOutcomes(n, mayLink) }
    \cup { Repeat(h, Retries) : h \in Retryable }
    \cup { <<HttpTimeout, HttpRequestException,
             HttpResponse(429, <<>>, ErrorText(429), "object"), h>> :
           h \in HttpOutcomes(n, mayLink) }

\* The page budgets and the timeouts callers pass.
PageBudgets == {Nothing} \cup { Some(k) : k \in -1..(MaxChain - 1) }
QueryTimeouts == {2, 4}

\* The calls tried: every budget with the shorter timeout, and the longer
\* timeout, which leaves time for a third poll, with the budget 0.
PollCalls ==
    { c \in PageBudgets \X QueryTimeouts : c[2] = 2 \/ c[1] = Some(0) }

UnboundData == [unbound |-> TRUE]

NewFrame(show_progress, max_result_pages, query_timeout) ==
    [show_progress |-> show_progress,
     max_result_pages |-> max_result_pages,
     query_timeout |-> query_timeout,
     url |-> 0,
     accumulated_data |-> [events |-> <<>>, statistics |-> None],
     start_time |-> 0,
     poll_url |-> 0,
     data |-> UnboundData,
     result_pages |-> 0,
     description |-> Description("", 0, 0),
     sleeps |-> <<>>,
     requests |-> <<>>,
     pc |-> "start",
     outcome |-> [kind |-> "running"]]

(***************************************************************************)
(* The observer: what the server saw of the call, kept beside the code's   *)
(* own state to state the properties against.                              *)
(***************************************************************************)
NewObs ==
    [events |-> <<>>,        \* the events of the result pages, in fetch order
     keystats |-> Absent,    \* statistics of the last result page that has the key
     lastnonnull |-> None,   \* the last non-null statistics of a result page
     nonnull |-> 0,          \* result pages with non-null statistics
     everpop |-> FALSE,      \* a result page had events or non-null statistics
     merged |-> 0,           \* result pages: the completion page and Phase-2 pages
     waiting |-> 0,          \* still-processing responses
     lastbody |-> UnboundData, \* the body of the last 200/202 response
     lastkind |-> "none",    \* what the last attempt ended in
     sent |-> 0,             \* HTTP requests sent by the call that raised
     laststatus |-> 0,       \* the last response's status when not 200/202, else 0
     lastparses |-> "object",  \* and what its text parses to
     polls |-> 0,            \* Phase-1 calls of make_request
     linked |-> 0,           \* the link of the last poll response that had
                             \* one; the caller's url until there is one
     stillproc |-> FALSE,    \* the last page had status 202 and progress < 100
     timed_out |-> FALSE]    \* the elapsed-time check fired

\* A 200/202 response is a result page unless it answers a Phase-1 poll with
\* status 202 and progress below 100.
IsResultPage(f, h) ==
    \/ f.pc = "p2_req"
    \/ h.status_code = 200
    \/ "progress" \notin DOMAIN h.json
    \/ h.json.progress >= 100

ObserveResponse(o, f, h) ==
    IF h.kind # "response"
    THEN [o EXCEPT !.lastkind = "exception"]
    ELSE IF h.status_code \notin {200, 202}
    THEN [o EXCEPT !.lastkind = "error", !.laststatus = h.status_code,
                   !.lastparses = h.parses]
    ELSE LET b == h.json
             o1 == [o EXCEPT !.lastkind = "page", !.lastbody = b,
                             !.linked = IF f.pc = "p1_req"
                                           /\ "links" \in DOMAIN b
                                           /\ Len(b.links) > 0
                                        THEN b.links[1] ELSE @,
                             !.laststatus = 0, !.lastparses = "object",
                             !.stillproc = /\ h.status_code = 202
                                           /\ "progress" \in DOMAIN b
                                           /\ b.progress < 100]
         IN  IF ~IsResultPage(f, h)
             THEN [o1 EXCEPT !.waiting = @ + 1]
             ELSE [o1 EXCEPT
                     !.merged = @ + 1,
                     !.events = IF "events" \in DOMAIN b THEN @ \o b.events ELSE @,
                     !.keystats = IF "statistics" \in DOMAIN b
                                  THEN b.statistics ELSE @,
                     !.lastnonnull = IF "statistics" \in DOMAIN b
                                        /\ b.statistics # None
                                     THEN b.statistics ELSE @,
                     !.nonnull = IF "statistics" \in DOMAIN b
                                    /\ b.statistics # None
                                 THEN @ + 1 ELSE @,
                     !.everpop = \/ @
                                 \/ ("events" \in DOMAIN b /\ b.events # <<>>)
                                 \/ ("statistics" \in DOMAIN b
                                     /\ b.statistics # None)]


\* A call of make_request went as hs says and ended as r says: the last
\* attempt made is what ended it.
ObserveCall(o, f, hs, r) ==
    ObserveResponse([o EXCEPT !.sent = IF r.act = "raise" THEN r.sent ELSE 0],
                    f, hs[r.sent])

(***************************************************************************)
(* The steps of one call of poll_query.                                    *)
(***************************************************************************)
RECURSIVE Sum(_)
Sum(seq) == IF seq = <<>> THEN 0 ELSE Head(seq) + Sum(Tail(seq))

\* What time.time() may read at the head of the loop: the wall clock is at
\* least the time the call has slept past start_time, and may be any amount
\* later (slow requests, the transport's own backoff, a suspended process,
\* a stepped clock).  Readings beyond start_time + ClockCap are not tried.
ClockReadings(f) ==
    LET slept == Sum(f.sleeps)
        least == IF slept > ClockCap THEN ClockCap ELSE slept
    IN  { f.start_time + d : d \in least..ClockCap }

\* Lines 109-122: the accumulator, start_time and poll_url are set.
Enter ==
    /\ frame.pc = "start"
    /\ frame' = [frame EXCEPT !.start_time = 0, !.poll_url = frame.url,
                              !.pc = "p1_head"]
    /\ UNCHANGED <<obs, OutsidePoller>>

\* The head of the Phase-1 loop: the elapsed-time check, then the request.
PollLoopHead ==
    /\ frame.pc = "p1_head"
    /\ \E t \in ClockReadings(frame) :
         /\ frame' = LoopHead(frame, t)
         /\ obs' = [obs EXCEPT
                      !.timed_out = t - frame.start_time > frame.query_timeout,
                      !.polls = IF frame'.pc = "p1_req" THEN @ + 1 ELSE @]
    /\ UNCHANGED OutsidePoller

InRequest == frame.pc \in {"p1_req", "p2_req"}

\* How the attempts of the call in progress may go.
Offered == Scripts(Len(frame.requests), frame.result_pages < MaxChain)

\* make_request raises: poll_query has no handler, the exception ends the
\* call.
TransportRaise ==
    /\ InRequest
    /\ \E hs \in Offered :
         LET r == make_request_call(Retries, hs) IN
         /\ r.act = "raise"
         /\ frame' = Raise(frame, r.exc)
         /\ obs' = ObserveCall(obs, frame, hs, r)
    /\ UNCHANGED OutsidePoller

\* make_request returns a response to a Phase-1 poll.
PollResponse ==
    /\ frame.pc = "p1_req"
    /\ \E hs \in Offered :
         LET r == make_request_call(Retries, hs) IN
         /\ r.act = "return"
         /\ frame' = OnPoll(frame, r.response)
         /\ obs' = ObserveCall(obs, frame, hs, r)
    /\ UNCHANGED OutsidePoller

\* make_request returns a response to a Phase-2 page fetch.
PageResponse ==
    /\ frame.pc = "p2_req"
    /\ \E hs \in Offered :
         LET r == make_request_call(Retries, hs) IN
         /\ r.act = "return"
         /\ frame' = OnPage(frame, r.response)
         /\ obs' = ObserveCall(obs, frame, hs, r)
    /\ UNCHANGED OutsidePoller

NoResolution == [pc |-> "off"]
NoTransport == [pc |-> "off"]
NoCommand == [pc |-> "off"]
NoCacheManager == [pc |-> "off"]
NoJob == [pc |-> "off"]

Init ==
    /\ \E sp \in BOOLEAN, c \in PollCalls :
         frame = NewFrame(sp, c[1], c[2])
    /\ obs = NewObs
    /\ rs = NoResolution
    /\ tr = NoTransport
    /\ cmd = NoCommand
    /\ cm = NoCacheManager
    /\ job = NoJob

Next ==
    \/ Enter
    \/ PollLoopHead
    \/ TransportRaise
    \/ PollResponse
    \/ PageResponse

Spec == Init /\ [][Next]_vars

\* poll_query runs in one thread that nothing suspends for ever: a step
\* that can be taken is taken.
FairSpec == Spec /\ WF_vars(Next)


(***************************************************************************)
(* Properties of poll_query.                                               *)
(***************************************************************************)
Done == frame.pc = "done"
Returned == frame.outcome.kind = "return"
Raised == frame.outcome.kind = "raise"

\* Phase-2 calls of make_request so far.
Fetches2 == Len(frame.requests) - obs.polls

\* The last page the server gave carries a non-empty links array.
LastPageLinks == "links" \in DOMAIN obs.lastbody /\ Len(obs.lastbody.links) > 0

\* C1 - Order preservation: in every state the accumulated events are the
\* concatenation, in fetch order, of the events arrays of the result pages
\* fetched so far (the completion page, then each Phase-2 page); nothing is
\* re-sorted, dropped or de-duplicated.
C1_OrderPreservation ==
    /\ frame.accumulated_data.events = obs.events
    /\ (Done /\ Returned /\ obs.events # <<>>)
          => frame.outcome.value.events = obs.events

\* Three result pages were fetched and at least two of them carried events.
C1_Witness ==
    Done /\ Returned /\ obs.merged >= 3 /\ Len(obs.events) >= 2

\* C2 - Page budget enforcement: with max_result_pages = k >= 1 there are
\* never more than k Phase-2 fetches, and a call that returns after the
\* completion page made exactly min(k, L) of them: it stopped short of k
\* only on a page without links, and on a page with links only at k.  With
\* max_result_pages unset it stops only on a page without links.
C2_PageBudget ==
    LET m == frame.max_result_pages IN
    /\ (m # Nothing /\ Head(m) >= 1) => Fetches2 <= Head(m)
    /\ (Done /\ Returned /\ obs.merged >= 1 /\ (m = Nothing \/ Head(m) >= 1))
          => /\ Fetches2 = obs.merged - 1
             /\ IF LastPageLinks
                THEN m # Nothing /\ Fetches2 = Head(m)
                ELSE TRUE

\* The budget of one page cut a chain that went on.
C2_Witness ==
    /\ Done /\ Returned
    /\ frame.max_result_pages = Some(1)
    /\ Fetches2 = 1
    /\ LastPageLinks

\* C3 - Still-processing loop: while every Phase-1 response so far had
\* status 202 and progress < 100, nothing is merged and no Phase-2 fetch is
\* issued; the call can then only end by the timeout or by an error.
C3_StillProcessing ==
    obs.merged = 0
        => /\ frame.accumulated_data = [events |-> <<>>, statistics |-> None]
           /\ frame.pc # "p2_req"
           /\ Fetches2 = 0
           /\ (obs.lastkind = "page" /\ ~Done) => frame.pc \in {"p1_head", "p1_req"}
           /\ (Done /\ Returned) => obs.timed_out

\* A still-processing response that carried events, statistics and a link.
C3_Witness ==
    /\ obs.merged = 0 /\ obs.waiting >= 1 /\ obs.stillproc
    /\ frame.pc = "p1_head"
    /\ {"events", "statistics", "links"} \subseteq DOMAIN frame.data
    /\ frame.data.links # <<>>

\* C4 - Timeout does not raise: whenever the elapsed-time check fires, on
\* any iteration, the first included, the call returns normally.
C4_TimeoutDoesNotRaise ==
    (Done /\ obs.timed_out) => Returned

C6_StatisticsOverwrite ==
    (obs.nonnull >= 2 /\ obs.keystats # None)
        => /\ frame.accumulated_data.statistics = obs.keystats
           /\ (Done /\ Returned)
                 => /\ frame.outcome.value = frame.accumulated_data
                    /\ frame.outcome.value.statistics = obs.keystats

\* Two pages with statistics, then a page without the key, then the return.
C6_Witness ==
    /\ Done /\ Returned
    /\ obs.nonnull >= 2 /\ obs.keystats # None
    /\ "statistics" \notin DOMAIN obs.lastbody

\* The frame with the progress sink taken away.
Quiet(f) ==
    [f EXCEPT !.show_progress = FALSE, !.description = Description("", 0, 0)]

\* The responses make_request may return to poll_query in this state.
Returnable ==
    { r.response : r \in { x \in { make_request_call(Retries, hs) : hs \in Offered } :
                             x.act = "return" } }

\* C7 - Quiet/verbose equivalence: from every reachable state, for every
\* clock reading and every response, the step of the show_progress=True
\* copy and the step of the show_progress=False copy end in the same state
\* but for the progress sink: same request, same sleep, same position, same
\* return value or error.
C7_QuietVerboseEquivalence ==
    LET v == [frame EXCEPT !.show_progress = TRUE]
        q == Quiet(frame)
    IN  /\ frame.pc = "p1_head"
            => \A t \in ClockReadings(frame) :
                  Quiet(V_LoopHead(v, t)) = Q_LoopHead(q, t)
        /\ frame.pc = "p1_req"
            => \A h \in Returnable : Quiet(V_OnPoll(v, h)) = Q_OnPoll(q, h)
        /\ frame.pc = "p2_req"
            => \A h \in Returnable : Quiet(V_OnPage(v, h)) = Q_OnPage(q, h)

\* The quiet copy has polled, waited, completed and is fetching a page.
C7_Witness ==
    /\ ~frame.show_progress
    /\ frame.pc = "p2_req"
    /\ obs.waiting >= 1
    /\ Len(frame.sleeps) >= 2

\* C8 - Return shape: the call returns the accumulator whenever a result
\* page populated events or statistics, and the last raw body otherwise.
C8_ReturnShape ==
    (Done /\ Returned)
        => IF obs.everpop
           THEN frame.outcome.value = frame.accumulated_data
           ELSE frame.outcome.value = obs.lastbody

\* C17 - Transport errors abort the poll: when a call of make_request
\* inside poll_query ends in AuthenticationError (a 401 or 403) or in
\* RateLimitError (429 on every attempt), poll_query ends with that very
\* exception: no step follows, so no further request and no retry of its
\* own, and nothing accumulated is returned.
C17_TransportErrorsAbortPoll ==
    /\ obs.laststatus \in {401, 403}
          => /\ Done /\ ~ENABLED Next
             /\ frame.outcome =
                   [kind |-> "raise",
                    exc |-> Exc("AuthenticationError", Nothing, None)]
    /\ obs.laststatus = 429
          => /\ Done /\ ~ENABLED Next
             /\ obs.sent = Retries
             /\ frame.outcome =
                   [kind |-> "raise",
                    exc |-> Exc("RateLimitError", Nothing, None)]

\* The rate limit ended a Phase-2 fetch, after events had been accumulated.
C17_Witness ==
    /\ Done /\ obs.laststatus = 429
    /\ Fetches2 >= 1
    /\ frame.accumulated_data.events # <<>>

\* C20 as stated - Phase 2 after timeout: when the timeout check fires and
\* the last response has a non-empty links array and the page budget
\* allows, links[0].href is fetched before poll_query returns.
C20_Phase2AfterTimeout ==
    (/\ Done /\ obs.timed_out
     /\ LastPageLinks
     /\ BudgetAllows(frame.max_result_pages, 0))
        => Fetches2 >= 1

\* C20 amended - no Phase 2 after timeout: when the timeout check fires,
\* poll_query ends at once, whatever links the last response has and
\* whatever the page budget: no page is fetched and nothing is merged; it
\* returns the body of the last response as it is, or raises
\* UnboundLocalError when there was no response yet.
C20_NoPhase2AfterTimeout ==
    obs.timed_out
        => /\ Done /\ ~ENABLED Next
           /\ Fetches2 = 0 /\ obs.merged = 0
           /\ frame.accumulated_data = [events |-> <<>>, statistics |-> None]
           /\ IF obs.polls = 0
              THEN frame.outcome =
                     [kind |-> "raise",
                      exc |-> Exc("UnboundLocalError", Nothing, None)]
              ELSE frame.outcome = [kind |-> "return", value |-> obs.lastbody]

\* The timeout fired on a response with a link, with no page budget set.
C20_Witness ==
    /\ Done /\ Returned /\ obs.timed_out
    /\ LastPageLinks
    /\ frame.max_result_pages = Nothing

\* C21 - Poll URL rebinding: the first Phase-1 request goes to the caller's
\* url; every later one goes to links[0].href of the most recent Phase-1
\* response that had a non-empty links array, and to the URL polled before
\* when no response so far had one.
C21_PollUrlRebinding ==
    /\ obs.polls >= 1 => frame.requests[1] = 0
    /\ frame.pc = "p1_req"
          => /\ Len(frame.requests) = obs.polls
             /\ frame.requests[obs.polls] = obs.linked
             /\ (obs.polls >= 2 /\ ~LastPageLinks)
                   => frame.requests[obs.polls] = frame.requests[obs.polls - 1]

\* The third poll goes to the link of the first response, the second
\* response having none.
C21_Witness ==
    /\ frame.pc = "p1_req" /\ obs.polls = 3
    /\ frame.requests = <<0, 1, 1>>
    /\ ~LastPageLinks

\* The calls of make_request that have ended, in a response or in an
\* exception.
Answered ==
    obs.waiting + obs.merged
    + (IF obs.lastkind \in {"error", "exception"} THEN 1 ELSE 0)

\* C22 - Sequential link-chain order: every Phase-2 request goes to
\* links[0].href of the response just before it (the completion page for
\* the first one); it is issued when that response has been received and
\* merged; and at most one request is outstanding at any time.
C22_SequentialLinkChain ==
    /\ \A k \in (obs.polls + 1)..Len(frame.requests) :
           frame.requests[k] = k - 1
    /\ frame.pc = "p2_req"
          => /\ obs.lastkind = "page" /\ LastPageLinks
             /\ frame.requests[Len(frame.requests)] = obs.lastbody.links[1]
             /\ obs.merged = Fetches2
             /\ frame.accumulated_data.events = obs.events
             /\ frame.data = obs.lastbody
    /\ Len(frame.requests) - Answered = (IF InRequest THEN 1 ELSE 0)

\* The second Phase-2 fetch is out, after two polls and two merged pages.
C22_Witness ==
    /\ frame.pc = "p2_req" /\ Fetches2 = 2 /\ obs.polls = 2
    /\ frame.requests[4] = 3
    /\ Len(obs.events) = 2

\* C23 as stated, its last part - no termination on a linking server: with
\* max_result_pages unset, a call whose last response carries a non-empty
\* links array has not returned.
C23_LinkingServerNeverReturns ==
    (frame.max_result_pages = Nothing /\ obs.lastkind = "page" /\ LastPageLinks)
        => ~(Done /\ Returned)

\* What C23 says of one step: the elapsed-time check is made at the head
\* of the Phase-1 loop only, before the request of that iteration; and a
\* result page with a non-empty links array is followed by the fetch of
\* its link whenever the budget is unset or not yet used up, whatever time
\* has gone by.
TimeBoundStep ==
    /\ (obs'.timed_out /\ ~obs.timed_out)
          => /\ frame.pc = "p1_head" /\ Fetches2 = 0 /\ obs.merged = 0
             /\ frame'.requests = frame.requests
    /\ obs'.polls # obs.polls
          => /\ frame.pc = "p1_head" /\ ~obs'.timed_out
             /\ frame'.pc = "p1_req"
    /\ (/\ obs'.merged = obs.merged + 1
        /\ "links" \in DOMAIN obs'.lastbody /\ Len(obs'.lastbody.links) > 0
        /\ \/ frame.max_result_pages = Nothing
           \/ Fetches2 < Head(frame.max_result_pages))
          => frame'.pc = "p2_req"

\* The steps a call has left at most: two for each still-processing
\* response the timeout leaves room for (a clock that advances with the
\* sleeps reads more than query_timeout after query_timeout \div 2 + 1 of
\* them), two for each page of the server's chain, and the rest of the
\* present iteration.
StepsLeft ==
    2 * ((frame.query_timeout \div 2 + 1) - obs.waiting)
    + 2 * (MaxChain - Fetches2)
    + (CASE frame.pc = "start" -> 3
         [] frame.pc = "p1_head" -> 2
         [] frame.pc \in {"p1_req", "p2_req"} -> 1
         [] frame.pc = "done" -> 0)

\* C23 amended - termination and time bound: only Phase 1 consults the
\* clock, once per iteration before the request; once a result page has
\* been merged, elapsed time never stops the pagination, and with
\* max_result_pages unset every result page with a non-empty links array
\* is followed by another fetch, so that the call never ends on a server
\* whose result pages all carry one.  With a finite link chain and a
\* clock that advances with the sleeps every call ends: a call that has
\* not ended can take a step, and every step lowers StepsLeft, which is
\* never negative.  A query that never completes ends by the timeout,
\* links or no links.
C23_TerminationAndTimeBound ==
    /\ [](StepsLeft >= 0 /\ (~Done => ENABLED Next))
    /\ [][TimeBoundStep /\ StepsLeft' < StepsLeft]_vars

\* A page is being fetched with more time slept than the timeout allows.
C23_Witness ==
    /\ frame.pc = "p2_req" /\ frame.max_result_pages = Nothing
    /\ Sum(frame.sleeps) > frame.query_timeout
    /\ Fetches2 = 2

\* C24 - Fixed politeness delays: poll_query's own sleeps are one of 2
\* seconds after each still-processing Phase-1 response and one of 1 second
\* before each Phase-2 fetch, and no other; they do not grow.
C24_FixedDelays ==
    /\ Len(frame.sleeps) = obs.waiting + Fetches2
    /\ \A i \in 1..Len(frame.sleeps) :
          frame.sleeps[i] = IF i <= obs.waiting THEN 2 ELSE 1

\* One still-processing response, then two page fetches.
C24_Witness ==
    /\ obs.waiting = 1 /\ Fetches2 = 2
    /\ frame.sleeps = <<2, 1, 1>>

\* C25 - Final progress message: with show_progress=True, when the
\* pagination has stopped the last message of the progress sink is the
\* budget message, with the number of pages fetched, exactly when the last
\* page still has a non-empty links array (the budget stopped it), and the
\* completion message exactly when the last page has no links.
C25_FinalProgressMessage ==
    (Done /\ Returned /\ frame.show_progress /\ obs.merged >= 1)
        => /\ frame.description.msg = "Retrieved result pages"
                <=> LastPageLinks
           /\ frame.description.msg = "Query completed!"
                <=> ~LastPageLinks
           /\ frame.description.msg = "Retrieved result pages"
                => frame.description.n = Fetches2

\* C26 - Statistics keeps the last non-null value: at return the
\* accumulated statistics are those of the latest result page whose
\* statistics are not null; a later page whose statistics are null or
\* missing does not replace them.
C26_StatisticsLastNonNull ==
    (Done /\ Returned /\ obs.merged >= 1)
        => frame.accumulated_data.statistics = obs.lastnonnull

C29_NoAccumulationWhileWaiting ==
    /\ obs.merged = 0
          => frame.accumulated_data = [events |-> <<>>, statistics |-> None]
    /\ (Done /\ obs.timed_out /\ obs.waiting >= 1)
          => /\ obs.merged = 0 /\ obs.stillproc
             /\ frame.outcome = [kind |-> "return", value |-> obs.lastbody]

\* The timeout fired after a still-processing response that carried an
\* event and statistics: the raw body is returned.
C29_Witness ==
    /\ Done /\ obs.timed_out /\ obs.waiting = 2
    /\ {"events", "statistics", "progress"} \subseteq DOMAIN obs.lastbody
    /\ obs.lastbody.statistics # None
    /\ frame.outcome.value = obs.lastbody

\* C30 - Non-positive page budget: with max_result_pages <= 0 no Phase-2
\* fetch is ever issued, links or no links on the completion page, and a
\* call that completes returns what the completion page alone contributed;
\* the budget itself raises nothing: a call that raises does so on an
\* attempt that failed or at the timeout check.
C30_NonPositiveBudget ==
    (frame.max_result_pages # Nothing /\ Head(frame.max_result_pages) <= 0)
        => /\ Fetches2 = 0 /\ frame.pc # "p2_req"
           /\ obs.merged <= 1
           /\ obs.merged = 1
                 => /\ Done /\ Returned
                    /\ frame.accumulated_data =
                          [events |-> IF "events" \in DOMAIN obs.lastbody
                                      THEN obs.lastbody.events ELSE <<>>,
                           statistics |-> IF "statistics" \in DOMAIN obs.lastbody
                                          THEN obs.lastbody.statistics ELSE None]
                    /\ frame.outcome.value =
                          (IF obs.everpop THEN frame.accumulated_data
                           ELSE obs.lastbody)
           /\ (Done /\ Raised)
                 => obs.lastkind \in {"error", "exception"} \/ obs.timed_out

\* A budget of -1 and a completion page with an event and a link.
C30_Witness ==
    /\ Done /\ Returned
    /\ frame.max_result_pages = Some(-1)
    /\ obs.merged = 1 /\ LastPageLinks
    /\ Len(obs.events) = 1

(***************************************************************************)
(* Name resolution: Rapid7Client.get_log_id_by_name and                    *)
(* get_logset_id_by_name, with the CacheManager the client may be given.   *)
(***************************************************************************)
\* The latest instant of the clock and the longest cache_ttl configured
\* (cache_ttl is any non-negative integer).
MaxTime == 2
MaxTtl == 1

\* The names logs and logsets carry, and the names callers ask for.
ListedNames == {"Auth", "auth", "db"}
RequestedNames == {"Auth", "auth"}

\* A faulty variant: names are compared as they are written.
Lower_Identity(name) == name

\* str.lower() on these names.
Lower(name) == IF name = "Auth" THEN "auth" ELSE name

\* CacheManager._generate_key: the md5 of the JSON of type and query, taken
\* as the pair itself.
generate_key(query_type, query) == <<query_type, query>>

\* A faulty variant: the cache never has the entry.
CacheManager_get_Miss(cache, now, query_type, query) == None

\* CacheManager.get: diskcache gives the value of an entry whose expire time
\* is still ahead, None otherwise.
CacheManager_get(cache, now, query_type, query) ==
    LET key == generate_key(query_type, query)
        live == { e \in cache : e.key = key /\ e.expire_time > now }
    IN  IF live = {} THEN None ELSE (CHOOSE e \in live : TRUE).value

\* CacheManager.set: the entry replaces the key's and expires ttl from now.
CacheManager_set(cache, now, ttl, query_type, query, result) ==
    LET key == generate_key(query_type, query)
    IN  { e \in cache : e.key # key }
        \cup { [key |-> key, value |-> result, expire_time |-> now + ttl] }

QueryError(message) == [type |-> "QueryError", message |-> message]

\* What a resolution ends in, the cache it leaves, and whether it fetched.
Resolved(kind, v, cache, fetched) ==
    [outcome |-> IF kind = "return" THEN [kind |-> "return", value |-> v]
                 ELSE [kind |-> "raise", exc |-> v],
     cache |-> cache, fetched |-> fetched]

\* The ids of the logs whose name is `name` but for case, in listing order.
LogMatches(logs, name) ==
    LET sel == SelectSeq(logs, LAMBDA log : Lower(log.name) = Lower(name))
    IN  [i \in 1..Len(sel) |-> sel[i].id]

\* log.get('logsets_info', [])
LogsetsInfo(log) ==
    IF "logsets_info" \in DOMAIN log THEN log.logsets_info ELSE <<>>

\* The set of the ids of the logsets, of any log, whose name is `name` but
\* for case.
LogsetIds(logs, name) ==
    UNION { { LogsetsInfo(logs[i])[j].id :
                j \in { k \in 1..Len(LogsetsInfo(logs[i])) :
                          Lower(LogsetsInfo(logs[i])[k].name) = Lower(name) } } :
            i \in 1..Len(logs) }

\* get_log_id_by_name, the "list logs" request going as hs says.
get_log_id_by_name(self, name, hs) ==
    LET cache_key == "log_name_to_id_" \o Lower(name)
        cached_id == IF self.cache_manager
                     THEN CacheManager_get(self.cache, self.now,
                                           "log_lookup", cache_key)
                     ELSE None
        r == make_request_call(Retries, hs)
    IN  IF self.cache_manager /\ Truthy(cached_id)
        THEN Resolved("return", cached_id, self.cache, FALSE)
        ELSE IF r.act = "raise"
        THEN Resolved("raise", r.exc, self.cache, TRUE)
        ELSE IF r.response.status_code # 200
        THEN Resolved("raise", Exc("APIError", Nothing, None), self.cache, TRUE)
        ELSE LET matches == LogMatches(r.response.json.logs, name) IN
             IF matches = <<>>
             THEN Resolved("raise", QueryError("not_found"), self.cache, TRUE)
             ELSE IF Len(matches) > 1
             THEN Resolved("raise", QueryError("ambiguous"), self.cache, TRUE)
             ELSE Resolved("return", matches[1],
                           IF self.cache_manager
                           THEN CacheManager_set(self.cache, self.now, self.ttl,
                                    "log_lookup", cache_key, matches[1])
                           ELSE self.cache,
                           TRUE)

\* get_logset_id_by_name, likewise.
get_logset_id_by_name(self, name, hs) ==
    LET cache_key == "logset_name_to_id_" \o Lower(name)
        cached_id == IF self.cache_manager
                     THEN CacheManager_get(self.cache, self.now,
                                           "logset_lookup", cache_key)
                     ELSE None
        r == make_request_call(Retries, hs)
    IN  IF self.cache_manager /\ Truthy(cached_id)
        THEN Resolved("return", cached_id, self.cache, FALSE)
        ELSE IF r.act = "raise"
        THEN Resolved("raise", r.exc, self.cache, TRUE)
        ELSE IF r.response.status_code # 200
        THEN Resolved("raise", Exc("APIError", Nothing, None), self.cache, TRUE)
        ELSE LET logset_ids == LogsetIds(r.response.json.logs, name) IN
             IF logset_ids = {}
             THEN Resolved("raise", QueryError("not_found"), self.cache, TRUE)
             ELSE IF Cardinality(logset_ids) > 1
             THEN Resolved("raise", QueryError("ambiguous"), self.cache, TRUE)
             ELSE LET logset_id == CHOOSE x \in logset_ids : TRUE IN
                  Resolved("return", logset_id,
                           IF self.cache_manager
                           THEN CacheManager_set(self.cache, self.now, self.ttl,
                                    "logset_lookup", cache_key, logset_id)
                           ELSE self.cache,
                           TRUE)

get_id_by_name(fn, self, name, hs) ==
    IF fn = "log" THEN get_log_id_by_name(self, name, hs)
    ELSE get_logset_id_by_name(self, name, hs)

(***************************************************************************)
(* The "list logs" endpoint and the callers of the resolution.             *)
(***************************************************************************)
LogsetEntry(name, id) == [name |-> name, id |-> id]

\* A listing has up to two logs, each with an id of its own.  The first
\* is named "Auth" or "db" and has no logsets_info, one logset or two; the
\* second is one of four.
Logs1 ==
    { [id |-> "A1", name |-> n] @@ Field("logsets_info", ls) :
        n \in {"Auth", "db"},
        ls \in { <<>>,
                 << <<LogsetEntry("Auth", "S1")>> >>,
                 << <<LogsetEntry("Auth", "S1"), LogsetEntry("auth", "S2")>> >> } }

Logs2 ==
    { [id |-> "A2", name |-> "auth",
       logsets_info |-> <<LogsetEntry("auth", "S2")>>],
      [id |-> "A2", name |-> "auth",
       logsets_info |-> <<LogsetEntry("Auth", "S1")>>],
      [id |-> "A2", name |-> "db", logsets_info |-> <<>>],
      [id |-> "A2", name |-> "db",
       logsets_info |-> <<LogsetEntry("db", "S2")>>] }

Listings ==
    { <<>> } \cup { <<a>> : a \in Logs1 }
    \cup { <<a, b>> : a \in Logs1, b \in Logs2 }

\* How the attempts of the "list logs" request may go.
ListScripts ==
    { <<HttpResponse(200, [logs |-> l], "json", "object")>> : l \in Listings }
    \cup { <<HttpResponse(s, <<>>, ErrorText(s), "object")>> :
             s \in {204, 401, 500} }
    \cup { Repeat(HttpTimeout, Retries),
           <<HttpRequestException,
             HttpResponse(200, [logs |-> <<>>], "json", "object")>> }

(***************************************************************************)
(* What an observer of the resolutions records.                            *)
(***************************************************************************)
\* Names that are equal but for case.
SameIgnoringCase(a, b) ==
    \E c \in { {"Auth", "auth"}, {"db"} } : a \in c /\ b \in c

\* The listed logs, or logsets, named `name` but for case.
ListedLogs(logs, name) ==
    { i \in 1..Len(logs) : SameIgnoringCase(logs[i].name, name) }

ListedLogsets(logs, name) ==
    { e \in UNION { { LogsetsInfo(logs[i])[j] :
                        j \in 1..Len(LogsetsInfo(logs[i])) } :
                    i \in 1..Len(logs) } :
        SameIgnoringCase(e.name, name) }

NoCall == [fn |-> "none"]
NoPrior == [time |-> -1, name |-> None]

\* The record of a resolution just made: what was asked, whether it sent the
\* "list logs" request and got a listing, how many listed logs (logsets, by
\* id) matched and whether two of them differ in case only, what came of it,
\* and `prev`, the latest earlier resolution that fetched and returned an id.
ObserveResolution(s, fn, name, hs, res) ==
    LET r == make_request_call(Retries, hs)
        listed == res.fetched /\ r.act = "return"
                    /\ r.response.status_code = 200
        logs == IF listed THEN r.response.json.logs ELSE <<>>
        ls == ListedLogsets(logs, name)
    IN  [fn |-> fn, name |-> name, fetched |-> res.fetched,
         listed |-> listed,
         nmatch |-> IF fn = "log" THEN Cardinality(ListedLogs(logs, name))
                    ELSE Cardinality({ e.id : e \in ls }),
         casedup |-> IF fn = "log"
                     THEN \E i, j \in ListedLogs(logs, name) :
                            logs[i].name # logs[j].name
                     ELSE \E e, f \in ls : e.name # f.name /\ e.id # f.id,
         outcome |-> res.outcome,
         prev |-> s.prior]

(***************************************************************************)
(* The resolver's steps.                                                   *)
(***************************************************************************)
\* A client built by get_client_and_config, with a CacheManager of the
\* configured cache_ttl when cache_enabled and with none otherwise, and the
\* kind of name it is asked to resolve, a log's or a logset's.
NewResolver(fn, cache_enabled, cache_ttl) ==
    [pc |-> "on", fn |-> fn, cache_manager |-> cache_enabled,
     ttl |-> cache_ttl, now |-> 0, cache |-> {}, prior |-> NoPrior,
     last |-> NoCall]

\* One call of get_log_id_by_name or get_logset_id_by_name.
Resolve ==
    /\ \E name \in RequestedNames, hs \in ListScripts :
         LET res == get_id_by_name(rs.fn, rs, name, hs)
             call == ObserveResolution(rs, rs.fn, name, hs, res)
         IN  /\ make_request_call(Retries, hs).act # "pending"
             /\ rs' = [rs EXCEPT
                   !.cache = res.cache,
                   !.last = call,
                   !.prior =
                       IF res.fetched /\ res.outcome.kind = "return"
                       THEN [time |-> rs.now, name |-> name,
                             value |-> res.outcome.value]
                       ELSE @]
    /\ UNCHANGED OutsideResolver

\* Time passes between two resolutions.
Tick ==
    /\ rs.now < MaxTime
    /\ rs' = [rs EXCEPT !.now = @ + 1, !.last = NoCall]
    /\ UNCHANGED OutsideResolver

InitResolve ==
    /\ \E fn \in {"log", "logset"}, e \in BOOLEAN, ttl \in 0..MaxTtl :
         rs = NewResolver(fn, e, ttl)
    /\ frame = NewFrame(FALSE, Nothing, 2)
    /\ obs = NewObs
    /\ tr = NoTransport
    /\ cmd = NoCommand
    /\ cm = NoCacheManager
    /\ job = NoJob

NextResolve ==
    \/ Resolve
    \/ Tick

SpecResolve == InitResolve /\ [][NextResolve]_vars

(***************************************************************************)
(* Properties of the name resolution.                                      *)
(***************************************************************************)
\* C9 (name resolution outcome): a resolution that missed the cache and got
\* the listing returns an id if and only if exactly one listed log (logset)
\* has the requested name ignoring case; with no such log it raises the
\* not-found QueryError, with two or more the ambiguity QueryError.
C9_NameResolutionOutcome ==
    (rs.last.fn # "none" /\ rs.last.listed) =>
        /\ rs.last.outcome.kind = "return" <=> rs.last.nmatch = 1
        /\ rs.last.nmatch = 0 =>
             /\ rs.last.outcome.kind = "raise"
             /\ rs.last.outcome.exc = QueryError("not_found")
        /\ rs.last.nmatch >= 2 =>
             /\ rs.last.outcome.kind = "raise"
             /\ rs.last.outcome.exc = QueryError("ambiguous")

\* 'Auth' and 'auth' listed with different ids: the resolution was ambiguous.
C9_Witness ==
    /\ rs.last.fn # "none" /\ rs.last.listed
    /\ rs.last.nmatch = 2 /\ rs.last.casedup
    /\ rs.last.outcome.kind = "raise"

MaxRetries == 3

TransportRetries == (0..MaxRetries) \cup {Retries}

\* What an attempt may end in.
TransportAttempts ==
    { HttpResponse(s, <<>>, ErrorText(s), "object") :
        s \in {200, 204, 401, 403, 404, 429, 500, 503} }
    \cup { HttpResponse(500, <<>>, ErrorText(500), k) : k \in {"invalid", "other"} }
    \cup { HttpTimeout, HttpRequestException }

\* The call at entry: no attempt made.  `received` is what each attempt
\* made so far ended in, `sleeps` the time slept after each attempt that was
\* retried (0 when it was retried at once).
NewCall(retries) ==
    [pc |-> "loop", retries |-> retries, attempt |-> 0, received |-> <<>>,
     sleeps |-> <<>>, outcome |-> [kind |-> "running"]]

\* An attempt ends in a response that make_request returns (line 92).
AttemptReturns ==
    /\ tr.pc = "loop" /\ tr.attempt < tr.retries
    /\ \E h \in TransportAttempts :
         LET r == make_request(tr.attempt, tr.retries, h) IN
         /\ r.act = "return"
         /\ tr' = [tr EXCEPT !.pc = "done", !.received = Append(@, h),
                             !.outcome = [kind |-> "return",
                                          response |-> r.response]]
    /\ UNCHANGED OutsideTransport

\* An attempt ends in an exception that leaves make_request.
AttemptRaises ==
    /\ tr.pc = "loop" /\ tr.attempt < tr.retries
    /\ \E h \in TransportAttempts :
         LET r == make_request(tr.attempt, tr.retries, h) IN
         /\ r.act = "raise"
         /\ tr' = [tr EXCEPT !.pc = "done", !.received = Append(@, h),
                             !.outcome = [kind |-> "raise", exc |-> r.exc]]
    /\ UNCHANGED OutsideTransport

\* An attempt fails and the loop goes round again (continue).
AttemptRetried ==
    /\ tr.pc = "loop" /\ tr.attempt < tr.retries
    /\ \E h \in TransportAttempts :
         LET r == make_request(tr.attempt, tr.retries, h) IN
         /\ r.act = "retry"
         /\ tr' = [tr EXCEPT !.attempt = @ + 1, !.received = Append(@, h),
                             !.sleeps = Append(@, r.sleep)]
    /\ UNCHANGED OutsideTransport

\* The for-loop ran out: line 106.
RetriesExhausted ==
    /\ tr.pc = "loop" /\ tr.attempt >= tr.retries
    /\ tr' = [tr EXCEPT !.pc = "done",
                        !.outcome = [kind |-> "raise",
                                     exc |-> Exc("APIError", Nothing, None)]]
    /\ UNCHANGED OutsideTransport

InitTransport ==
    /\ \E n \in TransportRetries : tr = NewCall(n)
    /\ frame = NewFrame(FALSE, Nothing, 2)
    /\ obs = NewObs
    /\ rs = NoResolution
    /\ cmd = NoCommand
    /\ cm = NoCacheManager
    /\ job = NoJob

NextTransport ==
    \/ AttemptReturns
    \/ AttemptRaises
    \/ AttemptRetried
    \/ RetriesExhausted

SpecTransport == InitTransport /\ [][NextTransport]_vars

(***************************************************************************)
(* Properties of make_request.                                             *)
(***************************************************************************)
Sent == Len(tr.received)
LastReceived == tr.received[Sent]
IsStatus(h, statuses) == h.kind = "response" /\ h.status_code \in statuses
TransportDone == tr.pc = "done"

\* C13 as stated: a call that received a 401 or 403 raised
\* AuthenticationError and sent exactly one HTTP request.
C13_AuthExactlyOneRequest ==
    (Sent >= 1 /\ IsStatus(LastReceived, {401, 403}))
        => /\ TransportDone
           /\ tr.outcome = [kind |-> "raise",
                            exc |-> Exc("AuthenticationError", Nothing, None)]
           /\ Sent = 1

\* C13 (transport auth failure), amended: when an attempt of make_request
\* receives a 401 or 403, the call raises AuthenticationError on that
\* attempt, with no retry and no sleep after it, whatever retries is and
\* whichever attempt receives it: the request that got the response is the
\* last of the call, the attempt + 1 requests sent are those of the earlier
\* retried attempts and this one.
C13_TransportAuthFailure ==
    (Sent >= 1 /\ IsStatus(LastReceived, {401, 403}))
        => /\ TransportDone
           /\ tr.outcome = [kind |-> "raise",
                            exc |-> Exc("AuthenticationError", Nothing, None)]
           /\ Sent = tr.attempt + 1
           /\ Len(tr.sleeps) = Sent - 1
           /\ ~ENABLED NextTransport

\* A 403 on the third attempt of a call with retries = 3.
C13_Witness ==
    /\ tr.pc = "done" /\ tr.retries = 3 /\ Sent = 3
    /\ IsStatus(LastReceived, {403})

\* C14 (transport rate limit): while every attempt receives 429 the call
\* goes on until `retries` requests are sent, sleeping 2^attempt seconds
\* after each attempt but the last, and then raises RateLimitError; a
\* response below 400 on any attempt is returned.
C14_TransportRateLimit ==
    /\ (Sent >= 1 /\ \A i \in 1..Sent : IsStatus(tr.received[i], {429}))
          => /\ Sent <= tr.retries
             /\ TransportDone <=> Sent = tr.retries
             /\ TransportDone =>
                  tr.outcome = [kind |-> "raise",
                                exc |-> Exc("RateLimitError", Nothing, None)]
             /\ Len(tr.sleeps) = (IF TransportDone THEN Sent - 1 ELSE Sent)
             /\ \A i \in 1..Len(tr.sleeps) : tr.sleeps[i] = 2 ^ (i - 1)
    /\ (Sent >= 1 /\ LastReceived.kind = "response"
           /\ LastReceived.status_code < 400)
          => tr.outcome = [kind |-> "return", response |-> LastReceived]

\* Five 429s in a row against the default retries.
C14_Witness ==
    /\ TransportDone /\ tr.retries = Retries /\ Sent = Retries
    /\ \A i \in 1..Sent : IsStatus(tr.received[i], {429})
    /\ tr.sleeps = <<1, 2, 4, 8>>

\* C15 (transport retries 5xx): a 5xx response on an attempt that is not the
\* last is retried, after a backoff of 2^attempt seconds.
C15_TransportRetries5xx ==
    (Sent >= 1 /\ IsStatus(LastReceived, 500..599) /\ Sent < tr.retries)
        => /\ tr.pc = "loop"
           /\ tr.sleeps[Sent] = 2 ^ (Sent - 1)

\* C16 (transport retries timeouts and connection errors): an attempt that
\* fails with a timeout or a connection error is retried after a wait of
\* 2^attempt seconds, at most `retries` requests are sent, and APIError is
\* raised only when the last attempt fails.
C16_TransportRetriesTimeouts ==
    /\ Sent <= tr.retries
    /\ \A i \in 1..Sent :
         tr.received[i].kind \in {"Timeout", "RequestException"}
            => IF i < tr.retries
               THEN /\ Len(tr.sleeps) >= i
                    /\ tr.sleeps[i] = 2 ^ (i - 1)
               ELSE /\ TransportDone
                    /\ tr.outcome = [kind |-> "raise",
                                     exc |-> Exc("APIError", Nothing, None)]

(***************************************************************************)
(* The query commands: query_log, query_logset and query_all_logsets of    *)
(* logs_commands.py, with Rapid7Client.query_logset and query_all_logsets. *)
(***************************************************************************)
\* A faulty variant: nothing is taken for a UUID.
is_uuid_Never(value) == FALSE

\* Rapid7Client.is_uuid: the ids the server gives are UUIDs, names are not.
is_uuid(value) == value \in {"A1", "A2", "S1", "S2"}

\* Python truthiness of a cached result or of poll_query's value: a dict is
\* false when it is empty.
EmptyDict == "{}"
TruthyResult(v) == v # None /\ v # EmptyDict

\* "_".join(cache_key_parts)
RECURSIVE JoinKey(_)
JoinKey(parts) ==
    IF Len(parts) = 1 THEN parts[1]
    ELSE parts[1] \o "_" \o JoinKey(Tail(parts))

\* What a run of a command has done so far: the client's cache, the steps
\* taken in order ("list": a list-logs request, "get" / "set": the result
\* cache read / written, "poll": poll_query called), the target resolved.
Run(cache, trace, target) == [cache |-> cache, trace |-> trace, target |-> target]

Ended(run, outcome) == run @@ [outcome |-> outcome]

\* poll_query, by what a call of it ends in (a.poll).
CallPollQuery(run, a) == Ended([run EXCEPT !.trace = Append(@, "poll")], a.poll)

\* A faulty variant: --no-cache is not looked at when the cache is read.
CachedResult_IgnoresNoCache(c, run, a, cache_key) ==
    IF c.cache_manager
    THEN [run |-> [run EXCEPT !.trace = Append(@, "get")],
          cached_result |-> CacheManager_get(run.cache, c.now, "leql_query",
                                             cache_key)]
    ELSE [run |-> run, cached_result |-> None]

\* cached_result = None
\* if client.cache_manager and not no_cache:
\*     cached_result = client.cache_manager.get('leql_query', cache_key)
CachedResult(c, run, a, cache_key) ==
    IF c.cache_manager /\ ~a.no_cache
    THEN [run |-> [run EXCEPT !.trace = Append(@, "get")],
          cached_result |-> CacheManager_get(run.cache, c.now, "leql_query",
                                             cache_key)]
    ELSE [run |-> run, cached_result |-> None]

\* if client.cache_manager and not no_cache:
\*     client.cache_manager.set('leql_query', cache_key, data)
\* after a call that returned; an exception skips it.
StoreResult(c, ended, a, cache_key) ==
    IF ended.outcome.kind = "return" /\ c.cache_manager /\ ~a.no_cache
    THEN [ended EXCEPT
            !.trace = Append(@, "set"),
            !.cache = CacheManager_set(@, c.now, c.ttl, "leql_query",
                                       cache_key, ended.outcome.value)]
    ELSE ended

\* The resolution of the argument of a command: skipped for a UUID.
ResolveArg(fn, c, run, a) ==
    IF is_uuid(a.arg)
    THEN Ended([run EXCEPT !.target = a.arg],
               [kind |-> "return", value |-> a.arg])
    ELSE LET res == get_id_by_name(fn, [c EXCEPT !.cache = run.cache],
                                   a.arg, a.list)
         IN  Ended([run EXCEPT
                      !.cache = res.cache,
                      !.trace = IF res.fetched THEN Append(@, "list") ELSE @,
                      !.target = IF res.outcome.kind = "return"
                                 THEN res.outcome.value ELSE @],
                   res.outcome)

\* Rapid7Client.query_logset (client.py 324-351).
client_query_logset(c, run, a) ==
    LET r == ResolveArg("logset", c, run, a) IN
    IF r.outcome.kind = "raise" THEN r
    ELSE CallPollQuery([x \in {"cache", "trace", "target"} |-> r[x]], a)

\* A faulty variant: the names of the logs are taken for logset names.
LogsetNames_OfLogs(logs) == { logs[i].name : i \in 1..Len(logs) }

\* The logset names of a listing: logset.get('name') when it is not empty.
LogsetNames(logs) ==
    UNION { { LogsetsInfo(logs[i])[j].name : j \in 1..Len(LogsetsInfo(logs[i])) } :
            i \in 1..Len(logs) } \ {""}

\* Rapid7Client.query_all_logsets (client.py 353-412).
client_query_all_logsets(c, run, a) ==
    LET r == make_request_call(Retries, a.list)
        listed == [run EXCEPT !.trace = Append(@, "list")]
    IN  IF r.act = "raise" THEN Ended(listed, [kind |-> "raise", exc |-> r.exc])
        ELSE IF r.response.status_code # 200
        THEN Ended(listed, [kind |-> "raise",
                            exc |-> Exc("APIError", Nothing, None)])
        ELSE IF LogsetNames(r.response.json.logs) = {}
        THEN Ended(listed, [kind |-> "raise", exc |-> QueryError("no_logsets")])
        ELSE CallPollQuery([listed EXCEPT !.target = "all"], a)

\* The command query_log (logs_commands.py 597-664): the try block up to
\* `data`.
query_log(c, a) ==
    LET r == ResolveArg("log", c, Run(c.cache, <<>>, None), a) IN
    IF r.outcome.kind = "raise" THEN r
    ELSE LET log_id == r.outcome.value
             cache_key == JoinKey(<<log_id, a.query, a.time_range,
                                    ToString(a.max_result_pages)>>)
             g == CachedResult(c, [x \in {"cache", "trace", "target"} |-> r[x]],
                               a, cache_key)
         IN  IF ~TruthyResult(g.cached_result)
             THEN StoreResult(c, CallPollQuery(g.run, a), a, cache_key)
             ELSE Ended(g.run, [kind |-> "return", value |-> g.cached_result])

\* The command query_logset (logs_commands.py 819-849).
query_logset(c, a) ==
    LET cache_key == JoinKey(<<"logset", a.arg, a.query, a.time_range,
                               ToString(a.max_result_pages)>>)
        g == CachedResult(c, Run(c.cache, <<>>, None), a, cache_key)
    IN  IF ~TruthyResult(g.cached_result)
        THEN StoreResult(c, client_query_logset(c, g.run, a), a, cache_key)
        ELSE Ended(g.run, [kind |-> "return", value |-> g.cached_result])

\* The command query_all_logsets (logs_commands.py 915-964): unless the
\* output is JSON it first lists the logs to show a count, whatever comes
\* of that request.
query_all_logsets(c, a) ==
    LET shown == IF a.use_json THEN Run(c.cache, <<>>, None)
                 ELSE Run(c.cache, <<"list">>, None)
        cache_key == JoinKey(<<"all_logsets", a.query, a.time_range,
                               ToString(a.max_result_pages)>>)
        g == CachedResult(c, shown, a, cache_key)
    IN  IF ~TruthyResult(g.cached_result)
        THEN StoreResult(c, client_query_all_logsets(c, g.run, a), a, cache_key)
        ELSE Ended(g.run, [kind |-> "return", value |-> g.cached_result])

RunCommand(kind, c, a) ==
    CASE kind = "query_log" -> query_log(c, a)
      [] kind = "query_logset" -> query_logset(c, a)
      [] kind = "query_all" -> query_all_logsets(c, a)

(***************************************************************************)
(* The runs of a command: its inputs, the server, the observer.            *)
(***************************************************************************)
\* config_manager.get('max_result_pages', 10)
DefaultMaxResultPages == 10

\* The argument of a run: a name, or the UUID of a log / of a logset.
CommandArgs(kind) ==
    CASE kind = "query_log" -> {"Auth", "auth", "A1"}
      [] kind = "query_logset" -> {"Auth", "auth", "S1"}
      [] kind = "query_all" -> {"-"}

QueryTexts == {"q1"}

\* The logs the server has when a command runs.
CommandListings ==
    { <<>>,
      <<[id |-> "A1", name |-> "Auth",
         logsets_info |-> <<LogsetEntry("Auth", "S1")>>]>>,
      <<[id |-> "A1", name |-> "Auth",
         logsets_info |-> <<LogsetEntry("Auth", "S1")>>],
        [id |-> "A2", name |-> "auth",
         logsets_info |-> <<LogsetEntry("auth", "S2")>>]>>,
      <<[id |-> "A2", name |-> "db"],
        [id |-> "A1", name |-> "db",
         logsets_info |-> <<LogsetEntry("", "S2")>>]>> }

\* What poll_query ends in: a result, an empty body, an exception.
PollOutcomes ==
    { [kind |-> "return", value |-> v] : v \in {"r1", EmptyDict} }
    \cup { [kind |-> "raise", exc |-> Exc("APIError", Some(500), ErrorText(500))] }

\* The inputs of a run: the listing is what a list-logs request is
\* answered with, unless the server fails it.
CommandInputs(kind) ==
    { [arg |-> arg, query |-> q, time_range |-> "t1",
       max_result_pages |-> DefaultMaxResultPages, no_cache |-> nc,
       use_json |-> uj, listing |-> l[1], listok |-> l[2],
       list |-> <<IF l[2] THEN HttpResponse(200, [logs |-> l[1]], "json", "object")
                  ELSE HttpResponse(500, <<>>, ErrorText(500), "object")>>,
       poll |-> p] :
        arg \in CommandArgs(kind), q \in QueryTexts, nc \in BOOLEAN,
        uj \in (IF kind = "query_all" THEN BOOLEAN ELSE {TRUE}),
        l \in (CommandListings \X {TRUE}) \cup {<< <<>>, FALSE >>},
        p \in PollOutcomes }

NoRun == [time |-> -1]

Polled(ended) == \E i \in 1..Len(ended.trace) : ended.trace[i] = "poll"
Stored(ended) == \E i \in 1..Len(ended.trace) : ended.trace[i] = "set"

\* What is kept of a run that stored its result, for the next runs to be
\* compared with.
Summary(c, a, ended) ==
    [time |-> c.now, arg |-> a.arg, query |-> a.query, target |-> ended.target,
     value |-> ended.outcome.value]

\* The record of the run just made: its inputs, its steps in order, what it
\* ended in, whether the server answers a list-logs request, how many logs
\* its listing has, how many of them (how many logsets, by id) have the
\* name asked for, whether the listing has a logset name at all, whether
\* the result entries of the cache are as they were, and `before`, the
\* latest earlier run that stored its result.
ObserveRun(c, a, ended) ==
    [kind |-> c.kind, arg |-> a.arg, query |-> a.query,
     no_cache |-> a.no_cache, target |-> ended.target,
     outcome |-> ended.outcome, trace |-> ended.trace,
     listok |-> a.listok, nlogs |-> Len(a.listing),
     nmatch |-> IF c.kind = "query_log"
                THEN Cardinality(ListedLogs(a.listing, a.arg))
                ELSE Cardinality({ e.id : e \in ListedLogsets(a.listing, a.arg) }),
     nonames |-> \A i \in 1..Len(a.listing) :
                   \A j \in 1..Len(LogsetsInfo(a.listing[i])) :
                      LogsetsInfo(a.listing[i])[j].name = "",
     results_kept |-> { e \in c.cache : e.key[1] = "leql_query" }
                        = { e \in ended.cache : e.key[1] = "leql_query" },
     before |-> c.prev]

\* A client built by get_client_and_config and the command it serves.
NewCommand(kind, cache_enabled, cache_ttl) ==
    [pc |-> "on", kind |-> kind, cache_manager |-> cache_enabled,
     ttl |-> cache_ttl, now |-> 0, cache |-> {}, prev |-> NoRun,
     last |-> NoRun]

OutsideCommand == <<frame, obs, rs, tr, cm, job>>

\* One run of the command, up to `data` or to the exception.  Each run is a
\* process of its own: the one before has exited.
RunOfCommand ==
    /\ cmd.last = NoRun
    /\ \E a \in CommandInputs(cmd.kind) :
       \E ended \in {RunCommand(cmd.kind, cmd, a)} :
         cmd' = [cmd EXCEPT !.cache = ended.cache,
                            !.prev = IF Stored(ended)
                                     THEN Summary(cmd, a, ended) ELSE @,
                            !.last = ObserveRun(cmd, a, ended)]
    /\ UNCHANGED OutsideCommand

\* The process of the run exits: nothing of it is left but the cache on disk.
CommandExit ==
    /\ cmd.last # NoRun
    /\ cmd' = [cmd EXCEPT !.last = NoRun]
    /\ UNCHANGED OutsideCommand

\* Time passes between two runs; the entries that expire are dropped.
CommandTick ==
    /\ cmd.now < MaxTime
    /\ cmd' = [cmd EXCEPT !.now = @ + 1, !.last = NoRun,
                          !.cache = { e \in @ : e.expire_time > cmd.now + 1 }]
    /\ UNCHANGED OutsideCommand

InitCommand ==
    /\ \E kind \in {"query_log", "query_logset", "query_all"},
          e \in BOOLEAN, ttl \in 0..MaxTtl :
         cmd = NewCommand(kind, e, ttl)
    /\ frame = NewFrame(FALSE, Nothing, 2)
    /\ obs = NewObs
    /\ rs = NoResolution
    /\ tr = NoTransport
    /\ cm = NoCacheManager
    /\ job = NoJob

NextCommand ==
    \/ RunOfCommand
    \/ CommandExit
    \/ CommandTick

SpecCommand == InitCommand /\ [][NextCommand]_vars

(***************************************************************************)
(* Properties of the query commands.                                       *)
(***************************************************************************)
Step(run, what) == \E i \in 1..Len(run.trace) : run.trace[i] = what

RaisedQueryError(run) ==
    run.outcome.kind = "raise" /\ run.outcome.exc.type = "QueryError"

\* The argument of the run is a name, not an id of the server.
NameGiven == cmd.last.arg \in RequestedNames

SingleTarget == cmd.last # NoRun /\ cmd.last.kind \in {"query_log", "query_logset"}

\* C11, as stated: in query-log and query-logset, whenever the name given
\* matches no log / logset of the server or more than one, the run raises
\* QueryError and poll_query is not called.
C11_AmbiguityAlwaysRejected ==
    (SingleTarget /\ NameGiven /\ cmd.last.listok
       /\ cmd.last.nmatch # 1)
    => (RaisedQueryError(cmd.last) /\ ~Step(cmd.last, "poll"))

\* C11, amended: in query-log and query-logset every list-logs request of a
\* run comes before its call of poll_query; when the run lists the logs
\* for a name and the listing has no match or more than one, the run
\* raises QueryError and poll_query is not called; an argument shaped like
\* a UUID is the target as it is and no list-logs request is made.  A run
\* that finds an id cached for the name does not list the logs and polls
\* that id whatever the server has by now.
C11_ResolutionBeforePolling ==
    SingleTarget =>
      /\ \A i, j \in 1..Len(cmd.last.trace) :
            (cmd.last.trace[i] = "list" /\ cmd.last.trace[j] = "poll") => i < j
      /\ (NameGiven /\ Step(cmd.last, "list") /\ cmd.last.listok
            /\ cmd.last.nmatch # 1)
           => (RaisedQueryError(cmd.last) /\ ~Step(cmd.last, "poll"))
      /\ (NameGiven /\ Step(cmd.last, "poll")
            /\ ~Step(cmd.last, "list"))
           => \E e \in cmd.cache :
                 /\ e.key[1] \in {"log_lookup", "logset_lookup"}
                 /\ e.value = cmd.last.target
      /\ ~NameGiven
           => /\ ~Step(cmd.last, "list")
              /\ Step(cmd.last, "poll") => cmd.last.target = cmd.last.arg

\* A name was listed, had two matches and was rejected without a poll.
C11_Witness ==
    /\ SingleTarget
    /\ NameGiven /\ Step(cmd.last, "list") /\ cmd.last.listok
    /\ cmd.last.nmatch = 2
    /\ RaisedQueryError(cmd.last) /\ ~Step(cmd.last, "poll")

\* Rapid7Client.query_all_logsets was called in the run: the command found
\* no cached result to return.
AllLogsetsCalled ==
    /\ cmd.last # NoRun /\ cmd.last.kind = "query_all"
    /\ cmd.last.trace # <<>>
    /\ cmd.last.trace[Len(cmd.last.trace)] # "get"

\* C12: when Rapid7Client.query_all_logsets is called and the listing it
\* gets has no logset name (no log, no logsets_info, or only empty names),
\* it raises the "no logsets found" QueryError and poll_query is not
\* called.
C12_AllLogsetsFailFast ==
    (AllLogsetsCalled /\ cmd.last.listok /\ cmd.last.nonames)
    => /\ cmd.last.outcome =
            [kind |-> "raise", exc |-> QueryError("no_logsets")]
       /\ ~Step(cmd.last, "poll")
       /\ cmd.last.results_kept

\* query_all_logsets got a listing of two logs, one without logsets_info
\* and one whose logset has an empty name, and raised.
C12_Witness ==
    /\ AllLogsetsCalled /\ cmd.last.listok /\ cmd.last.nonames
    /\ cmd.last.nlogs = 2
    /\ RaisedQueryError(cmd.last)

\* The run just made had the client's cache at hand and no --no-cache, and
\* an earlier run, less than the TTL ago, stored the result of the same
\* query text, time range and page budget.
AfterStoredRun ==
    /\ cmd.last # NoRun /\ cmd.last.before # NoRun
    /\ cmd.cache_manager /\ ~cmd.last.no_cache
    /\ cmd.last.query = cmd.last.before.query
    /\ cmd.now - cmd.last.before.time < cmd.ttl

\* With --no-cache the run neither reads nor writes the result cache.
NoCacheBypasses ==
    (cmd.last # NoRun /\ cmd.last.no_cache)
    => (~Step(cmd.last, "get") /\ ~Step(cmd.last, "set")
        /\ cmd.last.results_kept)

SameResultKey ==
    CASE cmd.last.kind = "query_log" ->
           cmd.last.target # None /\ cmd.last.target = cmd.last.before.target
      [] cmd.last.kind = "query_logset" -> cmd.last.arg = cmd.last.before.arg
      [] cmd.last.kind = "query_all" -> TRUE

CacheManager_clear_Nothing(cache) == cache

\* CacheManager.clear: self.cache.clear()
CacheManager_clear(cache) == {}

CacheTypes == {"test", "leql_query"}
CacheQueries == {"query1", "nonexistent"}
SetQueries == {"query1"}
CacheValues == {"data1", "data2"}

NoSet == [time |-> -1]
NoOp == [op |-> "none"]

\* CacheManager(cache_dir, ttl): an empty directory.  `latest` is the
\* observer's note of the last set of each type and query since the last
\* clear, `last` the operation just made.
NewCacheManager(ttl) ==
    [pc |-> "on", ttl |-> ttl, now |-> 0, cache |-> {},
     latest |-> [k \in CacheTypes \X CacheQueries |-> NoSet],
     last |-> NoOp]

OutsideCache == <<frame, obs, rs, tr, cmd, job>>

\* cache.set(query_type, query, result)
CacheSet ==
    /\ cm.pc = "on"
    /\ \E t \in CacheTypes, q \in SetQueries, v \in CacheValues :
         cm' = [cm EXCEPT
                  !.cache = CacheManager_set(@, cm.now, cm.ttl, t, q, v),
                  !.latest[<<t, q>>] = [time |-> cm.now, value |-> v],
                  !.last = [op |-> "set"]]
    /\ UNCHANGED OutsideCache

\* result = cache.get(query_type, query)
CacheGet ==
    /\ cm.pc = "on"
    /\ \E t \in CacheTypes, q \in CacheQueries :
         cm' = [cm EXCEPT
                  !.last = [op |-> "get", type |-> t, query |-> q,
                            result |-> CacheManager_get(cm.cache, cm.now, t, q)]]
    /\ UNCHANGED OutsideCache

\* cache.clear()
CacheClear ==
    /\ cm.pc = "on"
    /\ cm' = [cm EXCEPT
                !.cache = CacheManager_clear(@),
                !.latest = [k \in CacheTypes \X CacheQueries |-> NoSet],
                !.last = [op |-> "clear"]]
    /\ UNCHANGED OutsideCache

\* Time passes.
CacheTick ==
    /\ cm.pc = "on"
    /\ cm.now < MaxTime
    /\ cm' = [cm EXCEPT !.now = @ + 1, !.last = NoOp]
    /\ UNCHANGED OutsideCache

InitCache ==
    /\ \E ttl \in 0..MaxTtl : cm = NewCacheManager(ttl)
    /\ job = NoJob
    /\ frame = NewFrame(FALSE, Nothing, 2)
    /\ obs = NewObs
    /\ rs = NoResolution
    /\ tr = NoTransport
    /\ cmd = NoCommand

NextCache ==
    \/ CacheSet
    \/ CacheGet
    \/ CacheClear
    \/ CacheTick

SpecCache == InitCache /\ [][NextCache]_vars

NotADict == [notadict |-> TRUE]
IsDict(v) == "notadict" \notin DOMAIN v

\* A faulty variant: the status is compared as it is written.
StatusLower_Identity(status) == status

\* status.lower() on the statuses tried.
StatusLower(status) ==
    CASE status = "Succeeded" -> "succeeded"
      [] status = "FAILED" -> "failed"
      [] OTHER -> status

terminal_status == {"succeeded", "failed", "canceled", "cancelled"}

\* d.get(k, {}) on a dict; on anything else the call raises AttributeError.
GetOrEmpty(d, k) == IF k \in DOMAIN d THEN d[k] ELSE <<>>

\* Lines 804-811: the status of the job in a response, None when a key is
\* missing or when a .get on a value that is not a dict raised.
StatusOf(data) ==
    IF ~IsDict(data) THEN None
    ELSE LET d == GetOrEmpty(data, "data") IN
    IF ~IsDict(d) THEN None
    ELSE LET j == GetOrEmpty(d, "job")
             inner == IF IsDict(j) /\ "status" \notin DOMAIN j
                         /\ "job" \in DOMAIN j
                      THEN GetOrEmpty(j, "job") ELSE j
         IN  IF ~IsDict(inner) THEN None
             ELSE IF "status" \in DOMAIN inner THEN inner.status ELSE None

\* A status that is a JSON number and not a string, 7.
NumberStatus == "#7"
IsStr(status) == status # NumberStatus

\* The truth of `status`: None and the empty string are false.
StatusTruthy(status) == status # None /\ status # ""

\* status and status.lower() in terminal_status, for a status that is a
\* string or None.
IsTerminal(status) ==
    StatusTruthy(status) /\ StatusLower(status) \in terminal_status

\* ic_get_job with the response h to its request: the body of a 200, an
\* exception otherwise.
ic_get_job(h) ==
    LET r == make_request_call(Retries, <<h>>) IN
    IF r.act = "raise" THEN [kind |-> "raise", exc |-> r.exc]
    ELSE IF r.response.status_code # 200
    THEN [kind |-> "raise", exc |-> Exc("APIError", Nothing, None)]
    \* response.json() on a text that is not JSON
    ELSE IF r.response.parses = "invalid"
    THEN [kind |-> "raise", exc |-> Exc("JSONDecodeError", Nothing, None)]
    ELSE [kind |-> "return", value |-> r.response.json]

\* The statuses a job may show, and the bodies that carry them: the job
\* under data.job, or wrapped once more under data.job.job; bodies with a
\* key missing; a null where an object is due.
JobStatuses ==
    {"succeeded", "Succeeded", "FAILED", "canceled", "cancelled",
     "running", "", None, NumberStatus}

JobBodies ==
    { [data |-> [job |-> [status |-> st]]] : st \in JobStatuses }
    \cup { [data |-> [job |-> [job |-> [status |-> st]]]] :
             st \in {"succeeded", "running"} }
    \cup { [data |-> [job |-> [status |-> "running",
                               job |-> [status |-> "succeeded"]]]],
           [data |-> [job |-> [id |-> "j1"]]],
           [data |-> [job |-> NotADict]],
           [data |-> NotADict],
           [data |-> <<>>],
           <<>> }

JobResponses ==
    { HttpResponse(200, b, "json", "object") : b \in JobBodies }
    \cup { HttpResponse(s, <<>>, ErrorText(s), "object") : s \in {204, 401, 500} }
    \cup { HttpResponse(200, NotADict, "[]", "other"),
           HttpResponse(200, NotADict, "<html>", "invalid") }

JobTimeouts == {0, 4}
JobIntervals == {2, 3}

\* The call: its arguments, its locals, where it is, and beside them what
\* an observer notes: the polls made, the body of the last answer, whether
\* the check of the clock found the time up.
NewJob(timeout, interval) ==
    [pc |-> "head", timeout |-> timeout, interval |-> interval,
     start |-> 0, sleeps |-> <<>>, outcome |-> [kind |-> "running"],
     polls |-> 0, answered |-> 0, lastbody |-> NotADict, late |-> FALSE]

\* What time.time() may read: not less than the time slept since start.
JobClockReadings(j) ==
    LET slept == Sum(j.sleeps)
        least == IF slept > ClockCap THEN ClockCap ELSE slept
    IN  { j.start + d : d \in least..ClockCap }

\* while time.time() - start < timeout: ... raise TimeoutError(...)
WaitLoopHead(j, t) ==
    IF t - j.start < j.timeout
    THEN [j EXCEPT !.pc = "get"]
    ELSE [j EXCEPT !.pc = "done",
                   !.outcome = [kind |-> "raise",
                                exc |-> Exc("TimeoutError", Nothing, None)]]

\* Lines 803-816: the answer of ic_get_job, up to the return or the sleep.
OnJob(j, got) ==
    IF got.kind = "raise"
    THEN [j EXCEPT !.pc = "done", !.outcome = got]
    \* status.lower() on a number, outside the try
    ELSE IF ~IsStr(StatusOf(got.value))
    THEN [j EXCEPT !.pc = "done",
                   !.outcome = [kind |-> "raise",
                                exc |-> Exc("AttributeError", Nothing, None)]]
    ELSE IF IsTerminal(StatusOf(got.value))
    THEN [j EXCEPT !.pc = "done",
                   !.outcome = [kind |-> "return", value |-> got.value]]
    ELSE [j EXCEPT !.pc = "head", !.sleeps = Append(@, j.interval)]

JobLoopHead ==
    /\ job.pc = "head"
    /\ \E t \in JobClockReadings(job) :
       \E j \in {WaitLoopHead(job, t)} :
         job' = [j EXCEPT !.late = t - job.start >= job.timeout,
                          !.polls = IF j.pc = "get" THEN @ + 1 ELSE @]
    /\ UNCHANGED OutsideJob

JobAnswer ==
    /\ job.pc = "get"
    /\ \E h \in JobResponses :
       \E j \in {OnJob(job, ic_get_job(h))} :
         job' = [j EXCEPT !.answered = @ + 1,
                          !.lastbody = IF h.status_code = 200
                                          /\ h.parses = "object"
                                       THEN h.json ELSE NotADict]
    /\ UNCHANGED OutsideJob

InitJob ==
    /\ \E timeout \in JobTimeouts, interval \in JobIntervals :
         job = NewJob(timeout, interval)
    /\ frame = NewFrame(FALSE, Nothing, 2)
    /\ obs = NewObs
    /\ rs = NoResolution
    /\ tr = NoTransport
    /\ cmd = NoCommand
    /\ cm = NoCacheManager

NextJob ==
    \/ JobLoopHead
    \/ JobAnswer

SpecJob == InitJob /\ [][NextJob]_vars

JobDone == job.pc = "done"
JobReturned == JobDone /\ job.outcome.kind = "return"
JobTimedOut ==
    JobDone /\ job.outcome.kind = "raise"
            /\ job.outcome.exc.type = "TimeoutError"

\* The spellings of a final status among the statuses tried.
FinalSpellings == {"succeeded", "Succeeded", "FAILED", "canceled", "cancelled"}
LastIsFinal == StatusOf(job.lastbody) \in FinalSpellings

\* C27: ic_wait_for_job returns exactly when a poll answers with a status
\* that is, in any case of letters, succeeded, failed, canceled or
\* cancelled, and what it returns is that answer; it sleeps `interval`
\* seconds after every other answer and at no other time; it raises
\* TimeoutError exactly when the check of the clock before a poll finds
\* `timeout` seconds or more elapsed, so that no poll begins once
\* `timeout` seconds have been slept.
C27_WaitForJob ==
    job.pc # "off" =>
      /\ JobReturned <=> (job.answered > 0 /\ LastIsFinal)
      /\ JobReturned => job.outcome.value = job.lastbody
      /\ \A i \in 1..Len(job.sleeps) : job.sleeps[i] = job.interval
      /\ Len(job.sleeps) =
           IF JobDone /\ ~JobTimedOut THEN job.answered - 1 ELSE job.answered
      /\ JobTimedOut <=> job.late
      /\ job.pc = "get" => Sum(job.sleeps) < job.timeout
      /\ job.polls = IF job.pc = "get" THEN job.answered + 1 ELSE job.answered

\* The second poll answers "Succeeded" and the call returns that answer.
C27_Witness ==
    /\ JobReturned
    /\ job.polls = 2
    /\ job.sleeps = <<job.interval>>
    /\ StatusOf(job.outcome.value) = "Succeeded"

====
